---- MODULE Spec2Model ----
(***************************************************************************)
(* Model of the RAG chatbot: conversation-history validation, the ask      *)
(* pipeline, the document registry (Prisma-backed and in-memory) and the   *)
(* upload / delete routes working against the vector index.                *)
(***************************************************************************)
EXTENDS Integers, Sequences, FiniteSets, TLC

\* ------------------------------------------------------------------ bounds
\* Longest conversationHistory a client of POST /api/chat sends.
MaxHist == 2
\* Longest message list the Home page accumulates.
MaxMsgs == 4

\* Uploads (ids handed out) in one run.
MaxDocs == 2
\* External calls that fail in one run.
MaxFailures == 1
\* Calls of registerDocument in one run.
MaxCalls == 3
\* Longest sequence of matches handed to formatContext on its own.
MaxMatches == 2
\* Calls of syncRegistryWithPinecone in flight together.
NumSyncs == 2
\* Sends started from the chat input in one run.
MaxSends == 2

VARIABLES
  messages,             \* Home: React state `messages`
  conversationHistory,  \* body.conversationHistory of the chat request in flight
  chatHistory,          \* generateResponse: history handed to model.startChat
  hpc,                  \* position of the chat request: idle / sent / validated
  prismaDocs,           \* rows of the Prisma Document table
  documentRegistry,     \* in-memory registry: the values of the Map
  lastSyncAge,          \* in-memory registry: Date.now() - lastSyncTime, as
                        \* "never" (lastSyncTime = 0), "recent" (less than
                        \* SYNC_INTERVAL) or "stale" (SYNC_INTERVAL or more)
  pinecone,             \* vector records of the index, all namespaces
  nextId,               \* ids and timestamps handed out so far
  req,                  \* the request being served and its position
  response,             \* the answer to the last request served
  failures,             \* external calls that have failed in this run
  deleted,              \* documents deleted by a DELETE or a delete-all
                        \* that was answered 200
  ask,                  \* ragPipeline: the ask request in flight and its position
  trace,                \* ragPipeline: stages entered and external calls issued
                        \* by the request in flight, in order
  calls,                \* registerDocument calls made so far, in order
  documents,            \* formatContext: its argument
  context,              \* formatContext: whether it has returned, and its result
  sync,                 \* syncRegistryWithPinecone: the calls of one run, their
                        \* positions, and the registry before the run
  tempFile,             \* upload routes: whether the temporary file of the last
                        \* upload request is on disk
  chatInput             \* ChatInput: its state, its props, what the last render
                        \* showed, and the sends started and settled

histVars == <<messages, conversationHistory, chatHistory, hpc>>

storeVars == <<prismaDocs, documentRegistry, lastSyncAge, pinecone, nextId>>

reqVars == <<req, response, failures, deleted>>

askVars == <<ask, trace>>

regVars == <<calls>>

ctxVars == <<documents, context>>

syncVars == <<sync>>

tmpVars == <<tempFile>>

inputVars == <<chatInput>>

vars == <<messages, conversationHistory, chatHistory, hpc,
          prismaDocs, documentRegistry, lastSyncAge, pinecone, nextId,
          req, response, failures, deleted, ask, trace, calls,
          documents, context, sync, tempFile, chatInput>>

\* ------------------------------------------------------- history validation
\* Message texts are sequences of characters; " " is the whitespace character.
Contents == { <<>>, <<" ">>, <<"a">>, <<" ", "b">> }

\* Role strings a request body can carry; "system" stands for any other string.
Roles == { "user", "assistant", "system" }

Turns == [role : Roles, content : Contents]

RECURSIVE TrimStart(_)
TrimStart(s) ==
  IF s # <<>> /\ Head(s) = " " THEN TrimStart(Tail(s)) ELSE s

RECURSIVE TrimEnd(_)
TrimEnd(s) ==
  IF s # <<>> /\ s[Len(s)] = " " THEN TrimEnd(SubSeq(s, 1, Len(s) - 1)) ELSE s

\* String.prototype.trim
Trim(s) == TrimEnd(TrimStart(s))

\* chain.ts 288-291: the role is "user" or else "model", the text is kept.
MapTurn(msg) ==
  [role |-> IF msg.role = "user" THEN "user" ELSE "model", text |-> msg.content]

\* A filter that only drops the empty string (no trim).
KeepTurnNoTrim(m) == m.text # <<>>

\* chain.ts 292: msg.parts[0].text && msg.parts[0].text.trim().length > 0
KeepTurn(m) == m.text # <<>> /\ Len(Trim(m.text)) > 0

\* chain.ts 287-292
ValidatedHistory(h) ==
  SelectSeq([i \in 1..Len(h) |-> MapTurn(h[i])], KeepTurn)

\* chain.ts 295-299: one leading non-user turn is removed
ChatHistory(h) ==
  LET validatedHistory == ValidatedHistory(h)
  IN  IF Len(validatedHistory) > 0 /\ validatedHistory[1].role # "user"
      THEN Tail(validatedHistory)
      ELSE validatedHistory

\* A validated history read back as a conversation history ({role, content}).
AsConversation(ch) ==
  [i \in 1..Len(ch) |-> [role |-> ch[i].role, content |-> ch[i].text]]

Histories == UNION { [1..n -> Turns] : n \in 0..MaxHist }

\* ------------------------------------------------- documents: the stores
\* Strings are sequences of characters, so that ids built by concatenation
\* are built here the same way.
Users == { "u1", "u2" }

\* Document names a client uploads.
DocNames == { <<"a">>, <<"b">> }

\* Numbers of chunks a PDF yields (0: no text extracted).
ChunkCounts == { 0, 1, 2 }

DefaultNs == <<"default">>

\* auth.ts getUserNamespace: `user_${userId}`
getUserNamespace(userId) == <<"user_", userId>>

Namespaces == { DefaultNs } \cup { getUserNamespace(u) : u \in Users }

\* The decimal text of a small number.
Str(n) == << <<"0">>, <<"1">>, <<"2">>, <<"3">>, <<"4">>, <<"5">>,
             <<"6">>, <<"7">>, <<"8">>, <<"9">> >>[n + 1]

\* The i-th id Prisma generates (cuid), a fresh string.
Cuid(i) == <<"c">> \o Str(i)

\* `${documentName}-${Date.now()}` of the i-th upload: the millisecond clock
\* has advanced between two uploads served one after the other.
StampedId(documentName, i) == documentName \o <<"-", "t">> \o Str(i)

\* document-processor.ts generateChunkId: every character that is not a
\* letter or a digit becomes "_".
Alnum == { "a", "b", "0", "1", "2", "3", "4", "5" }

Sanitize(name) == [i \in 1..Len(name) |-> IF name[i] \in Alnum THEN name[i] ELSE "_"]

generateChunkId(documentName, chunkIndex) ==
  Sanitize(documentName) \o <<"_chunk_">> \o Str(chunkIndex)

\* Index.namespace(ns).upsert: a record with the id of a stored record of
\* the namespace replaces it.
Upsert(index, records) ==
  { v \in index : ~ \E r \in records : r.ns = v.ns /\ r.id = v.id } \cup records

\* part_004 117-128: the vectors of the Prisma upload (the PDFs have one
\* page).
PrismaVectors(id, documentName, namespace, k) ==
  { [ns |-> namespace, id |-> id \o <<"_chunk_">> \o Str(idx),
     source |-> documentName, documentId |-> id, page |-> 1] : idx \in 0..(k - 1) }

\* pinecone.ts addDocuments 232-315 called by upload-document/route.ts 81
\* without a namespace: the vectors go to the namespace "default"; the
\* metadata carries source but no documentId.
LegacyVectors(documentName, k) ==
  { [ns |-> DefaultNs, id |-> generateChunkId(documentName, idx),
     source |-> documentName, documentId |-> <<>>, page |-> 1] : idx \in 0..(k - 1) }

\* deleteVectorsForDocument(documentId, namespace): every record of the
\* namespace whose metadata.documentId matches is deleted.
deleteVectorsForDocument(index, documentId, namespace) ==
  { v \in index : ~ (v.ns = namespace /\ v.documentId = documentId) }

\* pinecone.ts deleteAllRecords: every record of the namespace is deleted.
deleteAllRecords(index, namespace) == { v \in index : v.ns # namespace }

\* document-registry.ts 369-381 (in-memory): documentRegistry.set
\* A set that adds the chunk count to the one already recorded.
RegistryAccumulate(registry, doc) ==
  LET old == { r \in registry : r.documentId = doc.documentId }
      sum == IF old = {} THEN doc.totalChunks
             ELSE doc.totalChunks + (CHOOSE r \in old : TRUE).totalChunks
  IN  (registry \ old) \cup { [doc EXCEPT !.totalChunks = sum] }

\* Map.set: the record replaces the one of the same documentId.
RegistrySet(registry, doc) ==
  { r \in registry : r.documentId # doc.documentId } \cup { doc }

\* document-registry.ts 396-463: one record per distinct metadata.source of
\* the namespace's vectors, counting them.
discoverDocumentsFromPinecone(index, namespace) ==
  LET matches == { v \in index : v.ns = namespace }
      sources == { v.source : v \in matches }
  IN  { [documentId |-> source \o <<"-">> \o namespace,
         fileName |-> source,
         namespace |-> namespace,
         totalChunks |-> Cardinality({ v \in matches : v.source = source }),
         status |-> "completed"] : source \in sources }

\* A skip test that does not look at the size of the registry.
SyncSkippedWhenRecent(registry, age) == age = "recent"

\* document-registry.ts 477: the sync is skipped when less than SYNC_INTERVAL
\* (5 minutes, line 363) has passed since lastSyncTime and the registry is
\* not empty.
SyncSkipped(registry, age) ==
  age = "recent" /\ Cardinality(registry) > 0

RECURSIVE SetAll(_, _)
\* document-registry.ts 487-489: every discovered record is set
SetAll(registry, docs) ==
  IF docs = {} THEN registry
  ELSE LET d == CHOOSE x \in docs : TRUE
       IN  SetAll(RegistrySet(registry, d), docs \ {d})

\* document-registry.ts 510-516 (in-memory getAllDocuments, after the sync)
RegistryOf(registry, namespace) == { d \in registry : d.namespace = namespace }

\* document-registry.ts 470-497 (in-memory syncRegistryWithPinecone) applied
\* to st = [registry, lastSyncAge, failed]; ok: the index query succeeds.
syncRegistryWithPinecone(st, namespace, ok) ==
  IF st.failed \/ SyncSkipped(st.registry, st.lastSyncAge) THEN st
  ELSE IF ok
       THEN [registry |-> SetAll(st.registry,
                                 discoverDocumentsFromPinecone(pinecone, namespace)),
             lastSyncAge |-> "recent",
             failed |-> FALSE]
       ELSE [st EXCEPT !.failed = TRUE]

\* document-registry.ts 576-580 (in-memory clearRegistry): lastSyncTime = 0
clearRegistry == [registry |-> {}, lastSyncAge |-> "never", failed |-> FALSE]

NoReq == [op |-> "none", pc |-> "idle", user |-> "none", name |-> <<>>,
          ns |-> <<>>, k |-> 0, id |-> <<>>, vecOk |-> "pending"]

NoResponse == [op |-> "none", status |-> 0]

HistIdle ==
  /\ messages = <<>>
  /\ conversationHistory = <<>>
  /\ chatHistory = <<>>
  /\ hpc = "idle"

StoreEmpty ==
  /\ prismaDocs = {}
  /\ documentRegistry = {}
  /\ lastSyncAge = "never"
  /\ pinecone = {}
  /\ nextId = 0

NoRequest ==
  /\ req = NoReq
  /\ response = NoResponse
  /\ failures = 0
  /\ deleted = {}

NoAsk == [pc |-> "idle", namespace |-> <<>>, retrieved |-> <<>>, context |-> <<>>,
          catalog |-> {}, error |-> "none"]

AskIdle ==
  /\ ask = NoAsk
  /\ trace = <<>>

NoCalls == calls = <<>>

NoContext == [done |-> FALSE, text |-> <<>>]

ContextIdle ==
  /\ documents = <<>>
  /\ context = NoContext

Syncs == 1..NumSyncs

NoSync == [namespace |-> << >>, before |-> {}, log |-> << >>,
           call |-> [p \in Syncs |-> [pc |-> "idle", late |-> FALSE]]]

SyncIdle == sync = NoSync

NoTempFile == tempFile = "absent"

\* part_000 18-19: message "", isLoading false; nothing sent.
NoInput == [message |-> << >>, isLoading |-> FALSE, disabled |-> FALSE,
            view |-> [message |-> << >>, isLoading |-> FALSE],
            sent |-> << >>, outcomes |-> << >>]

InputIdle == chatInput = NoInput

\* ------------------------------------------------ documents: the requests
Idle == req.pc = "idle"

\* The outcomes an external call can have: TRUE (success) and, while the
\* run's failures are not used up, FALSE.
Outcomes == IF failures < MaxFailures THEN BOOLEAN ELSE { TRUE }

Respond(r) == response' = r /\ req' = NoReq

\* SYNC_INTERVAL passes after the last sync, between two requests (a sync
\* reads the clock once, at its start).
Tick ==
  /\ Idle
  /\ lastSyncAge = "recent"
  /\ lastSyncAge' = "stale"
  /\ UNCHANGED <<prismaDocs, documentRegistry, pinecone, nextId, reqVars>>

\* part_004 23-74: POST /api/upload-document of the session user; a PDF
\* without content is answered 400.
UploadStart(u, documentName, k) ==
  /\ Idle
  /\ nextId < MaxDocs
  /\ IF k = 0
     THEN Respond([op |-> "upload", status |-> 400])
     ELSE /\ req' = [NoReq EXCEPT !.op = "upload", !.pc = "embed", !.user = u,
                       !.name = documentName, !.ns = getUserNamespace(u), !.k = k]
          /\ response' = NoResponse
  /\ UNCHANGED <<storeVars, failures, deleted>>

\* part_004 78-82: embeddings.embedDocuments
UploadEmbed(ok) ==
  /\ req.op = "upload" /\ req.pc = "embed"
  /\ IF ok
     THEN req' = [req EXCEPT !.pc = "create"] /\ UNCHANGED <<response, failures>>
     ELSE Respond([op |-> "upload", status |-> 500, id |-> <<>>]) /\ failures' = failures + 1
  /\ UNCHANGED <<storeVars, deleted>>

\* part_004 86-111: prisma.document.create, status "completed"
UploadCreate ==
  /\ req.op = "upload" /\ req.pc = "create"
  /\ nextId' = nextId + 1
  /\ prismaDocs' = prismaDocs \cup
       { [id |-> Cuid(nextId'), userId |-> req.user,
          documentId |-> StampedId(req.name, nextId'), fileName |-> req.name,
          totalChunks |-> req.k, namespace |-> req.ns, status |-> "completed"] }
  /\ req' = [req EXCEPT !.pc = "upsert", !.id = Cuid(nextId')]
  /\ UNCHANGED <<documentRegistry, lastSyncAge, pinecone,
                 response, failures, deleted>>

\* part_004 116-167: upsertVectors(vectorsToUpsert, namespace); then the
\* chunks are stored and the upload is answered 200; a failure is answered 500.
UploadUpsert(ok) ==
  /\ req.op = "upload" /\ req.pc = "upsert"
  /\ IF ok
     THEN /\ pinecone' = Upsert(pinecone, PrismaVectors(req.id, req.name, req.ns, req.k))
          /\ Respond([op |-> "upload", status |-> 200, id |-> req.id])
          /\ UNCHANGED failures
     ELSE /\ Respond([op |-> "upload", status |-> 500, id |-> req.id])
          /\ failures' = failures + 1
          /\ UNCHANGED pinecone
  /\ UNCHANGED <<prismaDocs, documentRegistry, lastSyncAge, nextId, deleted>>

\* upload-document/route.ts 22-58: POST /api/upload-document with the
\* namespace of the body.
LegacyUploadStart(documentName, namespace, k) ==
  /\ Idle
  /\ nextId < MaxDocs
  /\ IF k = 0
     THEN Respond([op |-> "legacyUpload", status |-> 400])
     ELSE /\ req' = [NoReq EXCEPT !.op = "legacyUpload", !.pc = "embed",
                       !.name = documentName, !.ns = namespace, !.k = k]
          /\ response' = NoResponse
  /\ UNCHANGED <<storeVars, failures, deleted>>

\* pinecone.ts addDocuments 252-264: embeddings.embedDocuments
LegacyEmbed(ok) ==
  /\ req.op = "legacyUpload" /\ req.pc = "embed"
  /\ IF ok
     THEN req' = [req EXCEPT !.pc = "upsert"] /\ UNCHANGED <<response, failures>>
     ELSE Respond([op |-> "legacyUpload", status |-> 500]) /\ failures' = failures + 1
  /\ UNCHANGED <<storeVars, deleted>>

\* pinecone.ts addDocuments 278-315: upsertVectors(vectors, namespace)
LegacyUpsert(ok) ==
  /\ req.op = "legacyUpload" /\ req.pc = "upsert"
  /\ IF ok
     THEN /\ pinecone' = Upsert(pinecone, LegacyVectors(req.name, req.k))
          /\ req' = [req EXCEPT !.pc = "register"]
          /\ UNCHANGED <<response, failures>>
     ELSE /\ Respond([op |-> "legacyUpload", status |-> 500])
          /\ failures' = failures + 1
          /\ UNCHANGED pinecone
  /\ UNCHANGED <<prismaDocs, documentRegistry, lastSyncAge, nextId, deleted>>

\* upload-document/route.ts 87-115: registerDocument (in-memory), then 200
LegacyRegister ==
  /\ req.op = "legacyUpload" /\ req.pc = "register"
  /\ nextId' = nextId + 1
  /\ documentRegistry' = RegistrySet(documentRegistry,
       [documentId |-> StampedId(req.name, nextId'), fileName |-> req.name,
        namespace |-> req.ns, totalChunks |-> req.k, status |-> "completed"])
  /\ Respond([op |-> "legacyUpload", status |-> 200, id |-> StampedId(req.name, nextId')])
  /\ UNCHANGED <<prismaDocs, lastSyncAge, pinecone, failures, deleted>>


\* The steps of DELETE with the registry record removed before the vector
\* deletion is issued.
DeleteStepRegistryFirst(step) ==
  CASE step = "auth"    -> "prisma"
    [] step = "prisma"  -> "vectors"
    [] step = "vectors" -> "clear"

\* documents/[id]/route.ts 50-99: the order of the steps of DELETE
DeleteStepAfter(step) ==
  CASE step = "auth"    -> "vectors"
    [] step = "vectors" -> "prisma"
    [] step = "prisma"  -> "clear"

\* A DELETE that gives up when the vector deletion fails.
DeleteAfterVectorsRethrow(ok) == IF ok THEN DeleteStepAfter("vectors") ELSE "failed"

\* documents/[id]/route.ts 51-60: a failed vector deletion is logged and
\* the handler continues.
DeleteAfterVectors(ok) == DeleteStepAfter("vectors")

\* documents/[id]/route.ts 92-99: the body of the 200 answer
DeleteOkBody(fileName, documentId) ==
  [success |-> TRUE,
   message |-> <<"Document ">> \o fileName \o <<" deleted successfully">>,
   documentId |-> documentId]

\* A check that only asks whether the document exists.
OwnsIfExists(session, document) == document # {}

\* documents/[id]/route.ts 40: the row found (document holds it, or is
\* empty) belongs to the session user.
Owns(session, document) ==
  document # {} /\ \E d \in document : d.userId = session

\* documents/[id]/route.ts 19-48: the session user must own the document
DeleteStart(session, id) ==
  /\ Idle
  /\ LET document == { d \in prismaDocs : d.id = id }
     IN  IF session = "none"
         THEN Respond([op |-> "delete", status |-> 401, vectorsDeleted |-> "pending"])
         ELSE IF ~ Owns(session, document)
         THEN Respond([op |-> "delete", status |-> 404, vectorsDeleted |-> "pending"])
         ELSE /\ req' = [NoReq EXCEPT !.op = "delete", !.pc = DeleteStepAfter("auth"),
                           !.user = session, !.id = id,
                           !.name = (CHOOSE d \in document : TRUE).fileName,
                           !.ns = getUserNamespace(session)]
              /\ response' = NoResponse
  /\ UNCHANGED <<storeVars, failures, deleted>>

\* documents/[id]/route.ts 50-60: deleteVectorsForDocument, failure caught;
\* req.vecOk records how the call ended ("pending" until it is issued).
DeleteVectors(ok) ==
  /\ req.op = "delete" /\ req.pc = "vectors"
  /\ pinecone' = IF ok THEN deleteVectorsForDocument(pinecone, req.id, req.ns)
                       ELSE pinecone
  /\ failures' = failures + (IF ok THEN 0 ELSE 1)
  /\ IF DeleteAfterVectors(ok) = "failed"
     THEN Respond([op |-> "delete", status |-> 500, id |-> req.id,
                   vectorsDeleted |-> "failed"])
     ELSE /\ req' = [req EXCEPT !.pc = DeleteAfterVectors(ok),
                                !.vecOk = IF ok THEN "deleted" ELSE "failed"]
          /\ UNCHANGED response
  /\ UNCHANGED <<prismaDocs, documentRegistry, lastSyncAge, nextId, deleted>>

\* documents/[id]/route.ts 62-70: the chunks and the Document row are deleted
DeletePrisma ==
  /\ req.op = "delete" /\ req.pc = "prisma"
  /\ prismaDocs' = { d \in prismaDocs : d.id # req.id }
  /\ req' = [req EXCEPT !.pc = DeleteStepAfter("prisma")]
  /\ UNCHANGED <<documentRegistry, lastSyncAge, pinecone, nextId,
                 response, failures, deleted>>

\* documents/[id]/route.ts 74-99: clearRegistry(), then the resync of the
\* user's namespace, whose failure is caught; the DELETE is answered 200.
DeleteClearAndSync(ok) ==
  /\ req.op = "delete" /\ req.pc = "clear"
  /\ LET st == syncRegistryWithPinecone(clearRegistry, req.ns, ok)
     IN  /\ documentRegistry' = st.registry
         /\ lastSyncAge' = st.lastSyncAge
  /\ failures' = failures + (IF ok THEN 0 ELSE 1)
  /\ Respond([op |-> "delete", status |-> 200, id |-> req.id,
              body |-> DeleteOkBody(req.name, req.id), vectorsDeleted |-> req.vecOk])
  /\ deleted' = deleted \cup { [id |-> req.id, fileName |-> req.name, namespace |-> req.ns] }
  /\ UNCHANGED <<prismaDocs, pinecone, nextId>>

\* documents/route.ts 25-59: GET /api/documents?namespace= : the sync, then
\* getAllDocuments (which syncs again); ok1, ok2: the index query of the
\* first and of the second sync succeeds (FALSE only for a query issued).
ListServe(namespace, ok1, ok2) ==
  /\ LET st0 == [registry |-> documentRegistry, lastSyncAge |-> lastSyncAge,
                 failed |-> FALSE]
         st1 == syncRegistryWithPinecone(st0, namespace, ok1)
         st2 == syncRegistryWithPinecone(st1, namespace, ok2)
     IN  /\ ok1 \/ st1.failed
         /\ ok2 \/ (st2.failed /\ ~st1.failed)
         /\ documentRegistry' = st2.registry
         /\ lastSyncAge' = st2.lastSyncAge
         /\ failures' = failures + (IF st2.failed THEN 1 ELSE 0)
         /\ response' = IF st2.failed
                        THEN [op |-> "list", status |-> 500, namespace |-> namespace]
                        ELSE [op |-> "list", status |-> 200, namespace |-> namespace,
                              documents |-> RegistryOf(st2.registry, namespace)]
  /\ UNCHANGED <<prismaDocs, pinecone, nextId, req, deleted>>

\* A GET /api/documents served while no other request is in flight.
ListDocuments(namespace, ok1, ok2) == Idle /\ ListServe(namespace, ok1, ok2)

\* A GET /api/documents served while another request is suspended at one of
\* its awaits: the routes take no lock.
ListConcurrently(namespace, ok1, ok2) == ~ Idle /\ ListServe(namespace, ok1, ok2)

InitDocs == HistIdle /\ StoreEmpty /\ NoRequest /\ AskIdle /\ NoCalls /\ ContextIdle /\ SyncIdle /\ NoTempFile /\ InputIdle

\* Users and document names are interchangeable: the first document of a
\* run is named "a" and uploaded by u1.
UsersNow == IF nextId = 0 THEN { "u1" } ELSE Users

DocNamesNow == IF nextId = 0 THEN { <<"a">> } ELSE DocNames

\* The application with the Prisma-backed upload and the DELETE route.
Next ==
  \/ Tick /\ UNCHANGED <<histVars, askVars, regVars, ctxVars, syncVars, tmpVars, inputVars>>
  \/ \E u \in UsersNow, n \in DocNamesNow, k \in ChunkCounts :
       UploadStart(u, n, k) /\ UNCHANGED <<histVars, askVars, regVars, ctxVars, syncVars, tmpVars, inputVars>>
  \/ \E ok \in Outcomes : UploadEmbed(ok) /\ UNCHANGED <<histVars, askVars, regVars, ctxVars, syncVars, tmpVars, inputVars>>
  \/ UploadCreate /\ UNCHANGED <<histVars, askVars, regVars, ctxVars, syncVars, tmpVars, inputVars>>
  \/ \E ok \in Outcomes : UploadUpsert(ok) /\ UNCHANGED <<histVars, askVars, regVars, ctxVars, syncVars, tmpVars, inputVars>>
  \/ \E session \in Users \cup {"none"}, i \in 1..MaxDocs :
       DeleteStart(session, Cuid(i)) /\ UNCHANGED <<histVars, askVars, regVars, ctxVars, syncVars, tmpVars, inputVars>>
  \/ \E ok \in Outcomes : DeleteVectors(ok) /\ UNCHANGED <<histVars, askVars, regVars, ctxVars, syncVars, tmpVars, inputVars>>
  \/ DeletePrisma /\ UNCHANGED <<histVars, askVars, regVars, ctxVars, syncVars, tmpVars, inputVars>>
  \/ \E ok \in Outcomes : DeleteClearAndSync(ok) /\ UNCHANGED <<histVars, askVars, regVars, ctxVars, syncVars, tmpVars, inputVars>>
  \/ \E ns \in Namespaces, ok1, ok2 \in Outcomes :
       ListDocuments(ns, ok1, ok2) /\ UNCHANGED <<histVars, askVars, regVars, ctxVars, syncVars, tmpVars, inputVars>>

Spec == InitDocs /\ [][Next]_vars

\* The same application with requests served concurrently.
NextConcurrent ==
  \/ Next
  \/ \E ns \in Namespaces, ok1, ok2 \in Outcomes :
       ListConcurrently(ns, ok1, ok2)
         /\ UNCHANGED <<histVars, askVars, regVars, ctxVars, syncVars, tmpVars, inputVars>>

SpecConcurrent == InitDocs /\ [][NextConcurrent]_vars

\* The application with the earlier upload route and the in-memory registry.
NextLegacy ==
  \/ Tick /\ UNCHANGED <<histVars, askVars, regVars, ctxVars, syncVars, tmpVars, inputVars>>
  \/ \E n \in DocNamesNow, ns \in Namespaces, k \in ChunkCounts :
       LegacyUploadStart(n, ns, k) /\ UNCHANGED <<histVars, askVars, regVars, ctxVars, syncVars, tmpVars, inputVars>>
  \/ \E ok \in Outcomes : LegacyEmbed(ok) /\ UNCHANGED <<histVars, askVars, regVars, ctxVars, syncVars, tmpVars, inputVars>>
  \/ \E ok \in Outcomes : LegacyUpsert(ok) /\ UNCHANGED <<histVars, askVars, regVars, ctxVars, syncVars, tmpVars, inputVars>>
  \/ LegacyRegister /\ UNCHANGED <<histVars, askVars, regVars, ctxVars, syncVars, tmpVars, inputVars>>
  \/ \E ns \in Namespaces, ok1, ok2 \in Outcomes :
       ListDocuments(ns, ok1, ok2) /\ UNCHANGED <<histVars, askVars, regVars, ctxVars, syncVars, tmpVars, inputVars>>

SpecLegacy == InitDocs /\ [][NextLegacy]_vars

\* ------------------------------------------------------------ Home and chat
InitHist == HistIdle /\ StoreEmpty /\ NoRequest /\ AskIdle /\ NoCalls /\ ContextIdle /\ SyncIdle /\ NoTempFile /\ InputIdle

\* Home.handleUploadSuccess: an assistant message is appended for the upload
\* result (success or error text, never blank).
HomeUploadSuccess ==
  /\ hpc = "idle"
  /\ Len(messages) < MaxMsgs
  /\ messages' = Append(messages, [role |-> "assistant", content |-> <<"a">>])
  /\ UNCHANGED <<conversationHistory, chatHistory, hpc>>

\* Home.handleSendMessage up to the fetch: the history sent is `messages` as
\* of the render (without the new user message).
HomeSendMessage(message) ==
  /\ hpc = "idle"
  /\ Trim(message) # <<>>
  /\ Len(messages) + 2 <= MaxMsgs
  /\ conversationHistory' = [i \in 1..Len(messages) |->
        [role |-> messages[i].role, content |-> messages[i].content]]
  /\ messages' = Append(messages, [role |-> "user", content |-> message])
  /\ hpc' = "sentHome"
  /\ UNCHANGED chatHistory

\* POST /api/chat called by any client: conversationHistory is the body's.
ApiChatRequest(h) ==
  /\ hpc = "idle"
  /\ conversationHistory' = h
  /\ hpc' = "sentApi"
  /\ UNCHANGED <<messages, chatHistory>>

\* generateResponse 286-309: the history is validated and handed to startChat.
GenerateValidate ==
  /\ hpc \in {"sentHome", "sentApi"}
  /\ chatHistory' = ChatHistory(conversationHistory)
  /\ hpc' = IF hpc = "sentHome" THEN "validatedHome" ELSE "validatedApi"
  /\ UNCHANGED <<messages, conversationHistory>>

\* Home.handleSendMessage after the fetch: the answer (or the error text) is
\* appended as an assistant message.
HomeReceive(content) ==
  /\ hpc = "validatedHome"
  /\ messages' = Append(messages, [role |-> "assistant", content |-> content])
  /\ conversationHistory' = <<>>
  /\ chatHistory' = <<>>
  /\ hpc' = "idle"

\* The API client's request is answered.
ApiChatDone ==
  /\ hpc = "validatedApi"
  /\ conversationHistory' = <<>>
  /\ chatHistory' = <<>>
  /\ hpc' = "idle"
  /\ UNCHANGED messages

NextHist ==
  \/ HomeUploadSuccess /\ UNCHANGED <<storeVars, reqVars, askVars, regVars, ctxVars, syncVars, tmpVars, inputVars>>
  \/ \E m \in Contents : HomeSendMessage(m) /\ UNCHANGED <<storeVars, reqVars, askVars, regVars, ctxVars, syncVars, tmpVars, inputVars>>
  \/ \E h \in Histories : ApiChatRequest(h) /\ UNCHANGED <<storeVars, reqVars, askVars, regVars, ctxVars, syncVars, tmpVars, inputVars>>
  \/ GenerateValidate /\ UNCHANGED <<storeVars, reqVars, askVars, regVars, ctxVars, syncVars, tmpVars, inputVars>>
  \/ \E c \in {<<"a">>, <<" ", "b">>} : HomeReceive(c) /\ UNCHANGED <<storeVars, reqVars, askVars, regVars, ctxVars, syncVars, tmpVars, inputVars>>
  \/ ApiChatDone /\ UNCHANGED <<storeVars, reqVars, askVars, regVars, ctxVars, syncVars, tmpVars, inputVars>>

SpecHistory == InitHist /\ [][NextHist]_vars

Validated == hpc \in {"validatedHome", "validatedApi"}

\* ------------------------------------------------------ registerDocument
\* The metadata a caller registers; documentId <<>> is the absent id.
Statuses == { "processing", "completed", "failed" }

Metadata == [documentId : { <<>>, <<"d">> }, fileName : DocNames,
             namespace : { DefaultNs }, totalChunks : { 1, 2 },
             status : Statuses]

\* document-registry.ts 33 / 373:
\* metadata.documentId || `${metadata.fileName}-${Date.now()}`
EffectiveId(metadata, stamp) ==
  IF metadata.documentId # <<>> THEN metadata.documentId
  ELSE StampedId(metadata.fileName, stamp)

\* document-registry.ts 28-86 (Prisma-backed registerDocument): the row of
\* the documentId is updated (status, uploadedAt and the descriptive fields)
\* or a row is created.
registerDocument(rows, metadata, userId, stamp) ==
  LET documentId == EffectiveId(metadata, stamp)
      existing == { d \in rows : d.documentId = documentId }
  IN  IF existing # {}
      THEN { IF d \in existing
             THEN [d EXCEPT !.status = "completed", !.uploadedAt = stamp]
             ELSE d : d \in rows }
      ELSE rows \cup
           { [id |-> Cuid(stamp), userId |-> userId, documentId |-> documentId,
              fileName |-> metadata.fileName, totalChunks |-> metadata.totalChunks,
              namespace |-> metadata.namespace, status |-> "completed",
              uploadedAt |-> stamp] }

\* document-registry.ts 369-388 (in-memory registerDocument)
registerDocumentInMemory(registry, metadata, stamp) ==
  RegistrySet(registry,
    [documentId |-> EffectiveId(metadata, stamp), fileName |-> metadata.fileName,
     namespace |-> metadata.namespace, totalChunks |-> metadata.totalChunks,
     status |-> "completed", uploadedAt |-> stamp])

\* A call of the Prisma-backed registerDocument.
RegisterPrisma(metadata, userId) ==
  /\ Len(calls) < MaxCalls
  /\ nextId' = nextId + 1
  /\ prismaDocs' = registerDocument(prismaDocs, metadata, userId, nextId')
  /\ calls' = Append(calls, [store |-> "prisma",
                             documentId |-> EffectiveId(metadata, nextId'),
                             totalChunks |-> metadata.totalChunks,
                             status |-> metadata.status])
  /\ UNCHANGED <<documentRegistry, lastSyncAge, pinecone>>

\* A call of the in-memory registerDocument.
RegisterInMemory(metadata) ==
  /\ Len(calls) < MaxCalls
  /\ nextId' = nextId + 1
  /\ documentRegistry' = registerDocumentInMemory(documentRegistry, metadata, nextId')
  /\ calls' = Append(calls, [store |-> "memory",
                             documentId |-> EffectiveId(metadata, nextId'),
                             totalChunks |-> metadata.totalChunks,
                             status |-> metadata.status])
  /\ UNCHANGED <<prismaDocs, lastSyncAge, pinecone>>

\* The elements of a sequence.
Range(seq) == { seq[i] : i \in 1..Len(seq) }

RECURSIVE KeysInOrder(_)
\* The keys of the in-memory Map in iteration order, which is the order in
\* which the keys were first set (document-registry.ts 381), read from the
\* log of the calls.
KeysInOrder(log) ==
  IF log = << >> THEN << >>
  ELSE LET before == KeysInOrder(SubSeq(log, 1, Len(log) - 1))
           last == log[Len(log)]
       IN  IF last.store = "memory" /\ last.documentId \notin Range(before)
           THEN Append(before, last.documentId)
           ELSE before

\* document-registry.ts 504-517 (in-memory getAllDocuments, after the
\* sync): Array.from(documentRegistry.values()).filter(namespace)
getAllDocumentsInMemory(registry, keys, namespace) ==
  LET values == [i \in 1..Len(keys) |-> CHOOSE r \in registry : r.documentId = keys[i]]
  IN  SelectSeq(values, LAMBDA doc : doc.namespace = namespace)

RECURSIVE OrderByUploadedAtDesc(_)
\* orderBy: { uploadedAt: "desc" }
OrderByUploadedAtDesc(rows) ==
  IF rows = {} THEN << >>
  ELSE LET newest == CHOOSE r \in rows : \A q \in rows : q.uploadedAt <= r.uploadedAt
       IN  << newest >> \o OrderByUploadedAtDesc(rows \ { newest })

\* document-registry.ts 94-126 (Prisma-backed getAllDocuments)
getAllDocumentsPrisma(rows, namespace) ==
  LET found == OrderByUploadedAtDesc({ d \in rows : d.namespace = namespace })
  IN  [i \in 1..Len(found) |->
        [documentId |-> found[i].documentId, fileName |-> found[i].fileName,
         namespace |-> found[i].namespace, totalChunks |-> found[i].totalChunks,
         status |-> found[i].status, uploadedAt |-> found[i].uploadedAt]]

\* A list through the Prisma-backed getAllDocuments.
ListPrisma(namespace) ==
  /\ response' = [op |-> "list", status |-> 200, namespace |-> namespace,
                   store |-> "prisma",
                   documents |-> getAllDocumentsPrisma(prismaDocs, namespace)]
  /\ UNCHANGED <<storeVars, req, failures, deleted, calls>>

\* A list through the in-memory getAllDocuments, which syncs first; ok: the
\* index query of the sync succeeds.
ListInMemory(namespace, ok) ==
  /\ LET st0 == [registry |-> documentRegistry, lastSyncAge |-> lastSyncAge,
                 failed |-> FALSE]
         st == syncRegistryWithPinecone(st0, namespace, ok)
     IN  /\ ok \/ st.failed
         /\ documentRegistry' = st.registry
         /\ lastSyncAge' = st.lastSyncAge
         /\ response' =
              IF st.failed
              THEN [op |-> "list", status |-> 500, namespace |-> namespace,
                    store |-> "memory"]
              ELSE [op |-> "list", status |-> 200, namespace |-> namespace,
                    store |-> "memory",
                    documents |-> getAllDocumentsInMemory(st.registry,
                                    KeysInOrder(calls), namespace)]
  /\ UNCHANGED <<prismaDocs, pinecone, nextId, req, failures, deleted, calls>>

InitRegistry == HistIdle /\ StoreEmpty /\ NoRequest /\ AskIdle /\ NoCalls /\ ContextIdle /\ SyncIdle /\ NoTempFile /\ InputIdle

NextRegistry ==
  \/ \E metadata \in Metadata :
       RegisterPrisma(metadata, "u1") /\ UNCHANGED <<histVars, reqVars, askVars, ctxVars, syncVars, tmpVars, inputVars>>
  \/ \E metadata \in Metadata :
       RegisterInMemory(metadata) /\ UNCHANGED <<histVars, reqVars, askVars, ctxVars, syncVars, tmpVars, inputVars>>
  \/ \E namespace \in { DefaultNs, getUserNamespace("u1") } :
       ListPrisma(namespace) /\ UNCHANGED <<histVars, askVars, ctxVars, syncVars, tmpVars, inputVars>>
  \/ \E namespace \in { DefaultNs, getUserNamespace("u1") }, ok \in BOOLEAN :
       ListInMemory(namespace, ok) /\ UNCHANGED <<histVars, askVars, ctxVars, syncVars, tmpVars, inputVars>>

SpecRegistry == InitRegistry /\ [][NextRegistry]_vars

\* The records of a documentId in the store a call was made on.
RecordsOf(store, documentId) ==
  IF store = "prisma" THEN { d \in prismaDocs : d.documentId = documentId }
  ELSE { d \in documentRegistry : d.documentId = documentId }

\* ---------------------------------------------------------- formatContext
\* chain.ts 171
NoDocumentsMarker == << "No relevant documents found." >>

\* chain.ts 179: the separator of the join
ContextSeparator == << "\n\n---\n\n" >>

\* (doc.score * 100).toFixed(1) of the scores 0 and 1
Percent(score) == IF score = 1 THEN << "100.0" >> ELSE << "0.0" >>

\* The entries numbered from 0.
EntryNumberFromZero(index) == Str(index)

\* chain.ts 177: `Document ${index + 1}`, index being the 0-based position
EntryNumber(index) == Str(index + 1)

\* chain.ts 177: the head of an entry, up to the page
EntryHead(doc, index) ==
  << "Document " >> \o EntryNumber(index) \o << " (from " >> \o doc.source \o
  << ", page " >> \o Str(doc.page)

\* chain.ts 176-177: the entry of a match
Entry(doc, index) ==
  EntryHead(doc, index) \o << ", relevance: " >> \o Percent(doc.score) \o
  << "%):\n" >> \o doc.text

RECURSIVE Join(_, _)
\* Array.prototype.join
Join(parts, separator) ==
  IF Len(parts) = 0 THEN << >>
  ELSE IF Len(parts) = 1 THEN parts[1]
  ELSE parts[1] \o separator \o Join(Tail(parts), separator)

\* chain.ts 162-182
formatContext(docs) ==
  IF Len(docs) = 0 THEN NoDocumentsMarker
  ELSE Join([i \in 1..Len(docs) |-> Entry(docs[i], i - 1)], ContextSeparator)

\* The matches retrieveRelevantDocuments can return (chain.ts 144-150).
MatchDocs == [source : DocNames, page : { 0, 1 }, score : { 0, 1 },
              text : { << >>, << "t" >> }]

MatchSeqs == UNION { [1..n -> MatchDocs] : n \in 0..MaxMatches }

\* formatContext is called with a sequence of matches.
InitContext ==
  /\ HistIdle /\ StoreEmpty /\ NoRequest /\ AskIdle /\ NoCalls /\ SyncIdle /\ NoTempFile /\ InputIdle
  /\ documents \in MatchSeqs
  /\ context = NoContext

\* chain.ts 162-182: formatContext returns
FormatContext ==
  /\ ~ context.done
  /\ context' = [done |-> TRUE, text |-> formatContext(documents)]
  /\ UNCHANGED documents

NextContext ==
  FormatContext /\ UNCHANGED <<histVars, storeVars, reqVars, askVars, regVars, syncVars, tmpVars, inputVars>>

SpecContext == InitContext /\ [][NextContext]_vars

\* The offsets at which the pattern occurs in the text.
Occurrences(text, pattern) ==
  { o \in 0..(Len(text) - Len(pattern)) :
      \A k \in 1..Len(pattern) : text[o + k] = pattern[k] }

\* ------------------------------------------------------------------- ask
Stage(name) == [kind |-> "stage", name |-> name, ok |-> TRUE]

Call(name, ok) == [kind |-> "call", name |-> name, ok |-> ok]

\* A pipeline in which a failed vector query is taken as "no results".
PipelineStepSwallow(step, ok, empty) ==
  CASE step = "start"         -> "embedQuery"
    [] step = "embedQuery"    -> IF ok THEN "queryVectors" ELSE "failed"
    [] step = "queryVectors"  -> IF ok /\ ~ empty THEN "formatContext"
                                 ELSE IF ok THEN "registryCheck"
                                 ELSE "formatContext"
    [] step = "registryCheck" -> IF ok THEN "formatContext" ELSE "failed"
    [] step = "formatContext" -> "catalog"
    [] step = "catalog"       -> "sendMessage"
    [] step = "sendMessage"   -> IF ok THEN "done" ELSE "failed"

\* A pipeline that sends the message to the language model again when the
\* call has failed.
PipelineStepRetry(step, ok, empty) ==
  CASE step = "start"         -> "embedQuery"
    [] step = "embedQuery"    -> IF ok THEN "queryVectors" ELSE "failed"
    [] step = "queryVectors"  -> IF ~ ok THEN "failed"
                                 ELSE IF empty THEN "registryCheck"
                                 ELSE "formatContext"
    [] step = "registryCheck" -> IF ok THEN "formatContext" ELSE "failed"
    [] step = "formatContext" -> "catalog"
    [] step = "catalog"       -> "sendMessage"
    [] step = "sendMessage"   -> IF ok THEN "done" ELSE "sendMessage"

\* chain.ts ragPipeline 333-373 with retrieveRelevantDocuments 112-155 and
\* generateResponse 213-323: the step that follows a step; ok: the step's
\* external call succeeded; empty: the vector query returned no match. An
\* error ends the request (every catch rethrows), except in the catalog
\* step, whose errors are caught (254-256).
PipelineStep(step, ok, empty) ==
  CASE step = "start"         -> "embedQuery"
    [] step = "embedQuery"    -> IF ok THEN "queryVectors" ELSE "failed"
    [] step = "queryVectors"  -> IF ~ ok THEN "failed"
                                 ELSE IF empty THEN "registryCheck"
                                 ELSE "formatContext"
    [] step = "registryCheck" -> IF ok THEN "formatContext" ELSE "failed"
    [] step = "formatContext" -> "catalog"
    [] step = "catalog"       -> "sendMessage"
    [] step = "sendMessage"   -> IF ok THEN "done" ELSE "failed"

\* The stage a step belongs to, entered when the request reaches the step:
\* Retrieving is retrieveRelevantDocuments (344), Assembling formatContext
\* (352), Generating generateResponse (355), Done the return (364), Failed
\* the catch (369).
EnterStage(step) ==
  CASE step = "embedQuery"    -> << Stage("Retrieving") >>
    [] step = "formatContext" -> << Stage("Assembling") >>
    [] step = "catalog"       -> << Stage("Generating") >>
    [] step = "done"          -> << Stage("Done") >>
    [] step = "failed"        -> << Stage("Failed") >>
    [] OTHER                  -> << >>

\* An error that is not the error thrown by the failed call.
ErrorOfGeneric(step) == "Error"

\* chain.ts 151-154, 319-322, 369-372: each catch rethrows the error it
\* caught, so the error of the request is the error of the call that failed
\* in the step.
ErrorOf(step) ==
  CASE step = "embedQuery"    -> "embedQuery"
    [] step = "queryVectors"  -> "queryVectors"
    [] step = "registryCheck" -> "getAllDocuments"
    [] step = "sendMessage"   -> "sendMessage"
    [] OTHER                  -> "none"

\* The error the request holds when it moves from its step to `next`.
AskError(next) == IF next = "failed" THEN ErrorOf(ask.pc) ELSE ask.error

\* The request moves to the step `next`, having issued the calls `events`.
AskAdvance(events, next) ==
  /\ trace' = trace \o events \o EnterStage(next)
  /\ ask' = [ask EXCEPT !.pc = next, !.error = AskError(next)]

\* pinecone.ts queryVectors 81-103: the matches are the records of the
\* namespace (the index holds fewer of them than topK).
queryVectors(index, namespace) == { v \in index : v.ns = namespace }

\* The orders in which the index can return the matches (by similarity to
\* the query).
Orderings(matches) ==
  { f \in [1..Cardinality(matches) -> matches] :
      \A i, j \in 1..Cardinality(matches) : i # j => f[i] # f[j] }

\* chain.ts 144-150: a match as retrieveRelevantDocuments returns it
MatchOf(v) ==
  [id |-> v.id, score |-> 1, text |-> << "t" >>, source |-> v.source, page |-> v.page]

\* chat route: ragPipeline(message, namespace, conversationHistory)
AskStart(namespace) ==
  /\ ask.pc = "idle"
  /\ ask' = [NoAsk EXCEPT !.pc = PipelineStep("start", TRUE, FALSE),
                          !.namespace = namespace]
  /\ trace' = EnterStage(PipelineStep("start", TRUE, FALSE))
  /\ response' = NoResponse
  /\ UNCHANGED <<storeVars, req, failures, deleted>>

\* chain.ts 123-124: embeddings.embedQuery(query)
AskEmbedQuery(ok) ==
  /\ ask.pc = "embedQuery"
  /\ AskAdvance(<< Call("embedQuery", ok) >>, PipelineStep("embedQuery", ok, FALSE))
  /\ UNCHANGED <<storeVars, reqVars>>

\* chain.ts 127-129: queryVectors(queryEmbedding, topK, namespace)
AskQueryVectors(ok) ==
  /\ ask.pc = "queryVectors"
  /\ \E results \in Orderings(IF ok THEN queryVectors(pinecone, ask.namespace) ELSE {}) :
       LET next == PipelineStep("queryVectors", ok, Len(results) = 0)
       IN  /\ trace' = trace \o << Call("queryVectors", ok) >> \o EnterStage(next)
           /\ ask' = [ask EXCEPT !.pc = next,
                                  !.retrieved = [i \in 1..Len(results) |-> MatchOf(results[i])],
                                  !.error = AskError(next)]
  /\ UNCHANGED <<storeVars, reqVars>>

\* chain.ts 129-139: no match: getAllDocuments(namespace), which syncs the
\* registry; ok: the index query of the sync succeeds.
AskRegistryCheck(ok) ==
  /\ ask.pc = "registryCheck"
  /\ LET st0 == [registry |-> documentRegistry, lastSyncAge |-> lastSyncAge,
                 failed |-> FALSE]
         st == syncRegistryWithPinecone(st0, ask.namespace, ok)
     IN  /\ ok \/ st.failed
         /\ documentRegistry' = st.registry
         /\ lastSyncAge' = st.lastSyncAge
         /\ AskAdvance(<< Call("getAllDocuments", ~ st.failed) >>,
                       PipelineStep("registryCheck", ~ st.failed, TRUE))
  /\ UNCHANGED <<prismaDocs, pinecone, nextId, reqVars>>

\* chain.ts 351-352: formatContext(retrievedDocs)
AskFormatContext ==
  /\ ask.pc = "formatContext"
  /\ trace' = trace \o EnterStage(PipelineStep("formatContext", TRUE, FALSE))
  /\ ask' = [ask EXCEPT !.pc = PipelineStep("formatContext", TRUE, FALSE),
                         !.context = formatContext(ask.retrieved)]
  /\ UNCHANGED <<storeVars, reqVars>>

\* The catalog without the chunk counts.
formatDocumentsForDisplayNames(docs) ==
  { << "**" >> \o doc.fileName \o << "**" >> : doc \in docs }

\* document-registry.ts 587-611 formatDocumentsForDisplay: for every
\* document an entry with its file name and its number of chunks (the
\* entries are held as a set).
formatDocumentsForDisplay(docs) ==
  { << "**" >> \o doc.fileName \o << "**", " Chunks: " >> \o Str(doc.totalChunks) :
      doc \in docs }

\* chain.ts 239-256: documentCatalog stays empty when the list or the stats
\* could not be fetched or when there is no document.
documentCatalog(allDocuments, fetched) ==
  IF fetched /\ allDocuments # {} THEN formatDocumentsForDisplay(allDocuments) ELSE {}

\* chain.ts 238-256: the catalog: getAllDocuments, then getDocumentStats
\* (which calls getAllDocuments); an error of either is caught.
AskCatalog(ok1, ok2) ==
  /\ ask.pc = "catalog"
  /\ LET st0 == [registry |-> documentRegistry, lastSyncAge |-> lastSyncAge,
                 failed |-> FALSE]
         st1 == syncRegistryWithPinecone(st0, ask.namespace, ok1)
         st2 == syncRegistryWithPinecone(st1, ask.namespace, ok2)
     IN  /\ ok1 \/ st1.failed
         /\ ok2 \/ (st2.failed /\ ~ st1.failed)
         /\ documentRegistry' = st2.registry
         /\ lastSyncAge' = st2.lastSyncAge
         /\ trace' = trace \o << Call("getAllDocuments", ~ st1.failed) >> \o
                        (IF st1.failed THEN << >>
                         ELSE << Call("getDocumentStats", ~ st2.failed) >>) \o
                        EnterStage(PipelineStep("catalog", ~ st2.failed, FALSE))
         /\ ask' = [ask EXCEPT
                      !.pc = PipelineStep("catalog", ~ st2.failed, FALSE),
                      !.catalog = documentCatalog(RegistryOf(st1.registry, ask.namespace),
                                                  ~ st2.failed)]
  /\ UNCHANGED <<prismaDocs, pinecone, nextId, reqVars>>

\* chain.ts 307-318: model.startChat, chat.sendMessage(fullMessage)
AskSendMessage(ok) ==
  /\ ask.pc = "sendMessage"
  /\ AskAdvance(<< Call("sendMessage", ok) >>, PipelineStep("sendMessage", ok, FALSE))
  /\ UNCHANGED <<storeVars, reqVars>>

\* chat/route.ts 44-73: the answer, 200 with the response or 500
AskRespond ==
  /\ ask.pc \in { "done", "failed" }
  /\ response' = IF ask.pc = "done"
                  THEN [op |-> "chat", status |-> 200, success |-> TRUE,
                        response |-> "answer", retrievedDocuments |-> ask.retrieved]
                  ELSE [op |-> "chat", status |-> 500, success |-> FALSE,
                        error |-> ask.error]
  /\ ask' = NoAsk
  /\ trace' = <<>>
  /\ UNCHANGED <<storeVars, req, failures, deleted>>

\* The stores after one upload of "a" by u1 through the Prisma route.
StoreOnePrisma ==
  /\ prismaDocs = { [id |-> Cuid(1), userId |-> "u1",
                     documentId |-> StampedId(<<"a">>, 1), fileName |-> <<"a">>,
                     totalChunks |-> 2, namespace |-> getUserNamespace("u1"),
                     status |-> "completed"] }
  /\ documentRegistry = {}
  /\ lastSyncAge = "never"
  /\ pinecone = PrismaVectors(Cuid(1), <<"a">>, getUserNamespace("u1"), 2)
  /\ nextId = 1

\* The stores after one upload of "a" through the earlier route.
StoreOneLegacy ==
  /\ prismaDocs = {}
  /\ documentRegistry = { [documentId |-> StampedId(<<"a">>, 1), fileName |-> <<"a">>,
                           namespace |-> DefaultNs, totalChunks |-> 1,
                           status |-> "completed"] }
  /\ lastSyncAge = "never"
  /\ pinecone = LegacyVectors(<<"a">>, 1)
  /\ nextId = 1

InitAsk ==
  /\ HistIdle /\ NoRequest /\ AskIdle /\ NoCalls /\ ContextIdle /\ SyncIdle /\ NoTempFile /\ InputIdle
  /\ StoreEmpty \/ StoreOnePrisma \/ StoreOneLegacy

NextAsk ==
  \/ \E ns \in Namespaces : AskStart(ns) /\ UNCHANGED <<histVars, regVars, ctxVars, syncVars, tmpVars, inputVars>>
  \/ \E ok \in BOOLEAN : AskEmbedQuery(ok) /\ UNCHANGED <<histVars, regVars, ctxVars, syncVars, tmpVars, inputVars>>
  \/ \E ok \in BOOLEAN : AskQueryVectors(ok) /\ UNCHANGED <<histVars, regVars, ctxVars, syncVars, tmpVars, inputVars>>
  \/ \E ok \in BOOLEAN : AskRegistryCheck(ok) /\ UNCHANGED <<histVars, regVars, ctxVars, syncVars, tmpVars, inputVars>>
  \/ AskFormatContext /\ UNCHANGED <<histVars, regVars, ctxVars, syncVars, tmpVars, inputVars>>
  \/ \E ok1, ok2 \in BOOLEAN : AskCatalog(ok1, ok2) /\ UNCHANGED <<histVars, regVars, ctxVars, syncVars, tmpVars, inputVars>>
  \/ \E ok \in BOOLEAN : AskSendMessage(ok) /\ UNCHANGED <<histVars, regVars, ctxVars, syncVars, tmpVars, inputVars>>
  \/ AskRespond /\ UNCHANGED <<histVars, regVars, ctxVars, syncVars, tmpVars, inputVars>>

SpecAsk == InitAsk /\ [][NextAsk]_vars

\* delete-all-records/route.ts 10-45: deleteAllRecords() (no namespace: the
\* namespace "default"), then every Document row is deleted; an error is
\* answered 500.
DeleteAllRecords(ok) ==
  /\ Idle /\ ask.pc = "idle"
  /\ IF ok
     THEN /\ pinecone' = deleteAllRecords(pinecone, DefaultNs)
          /\ prismaDocs' = {}
          /\ deleted' = deleted
               \cup { [id |-> d.id, fileName |-> d.fileName, namespace |-> d.namespace] :
                        d \in prismaDocs }
               \cup { [id |-> << >>, fileName |-> v.source, namespace |-> v.ns] :
                        v \in { w \in pinecone : w.ns = DefaultNs } }
          /\ response' = [op |-> "deleteAll", status |-> 200]
     ELSE /\ response' = [op |-> "deleteAll", status |-> 500]
          /\ UNCHANGED <<pinecone, prismaDocs, deleted>>
  /\ UNCHANGED <<documentRegistry, lastSyncAge, nextId, req, failures>>

\* The application after an upload: delete-all and ask requests.
NextClear ==
  \/ \E ok \in BOOLEAN :
       DeleteAllRecords(ok) /\ UNCHANGED <<histVars, askVars, regVars, ctxVars, syncVars, tmpVars, inputVars>>
  \/ NextAsk

SpecClear == InitAsk /\ [][NextClear]_vars

\* The names of the stages entered, in order.
StagesOf(t) ==
  LET stages == SelectSeq(t, LAMBDA e : e.kind = "stage")
  IN  [i \in 1..Len(stages) |-> stages[i].name]

StageOrder == << "Retrieving", "Assembling", "Generating", "Done" >>

\* The stage the request is in when it issues the i-th event of its trace.
StageAt(t, i) ==
  LET before == { j \in 1..i : t[j].kind = "stage" }
  IN  IF before = {} THEN "Idle"
      ELSE t[CHOOSE j \in before : \A k \in before : k <= j].name

\* The calls of the trace that failed.
FailedCalls(t) == { i \in 1..Len(t) : t[i].kind = "call" /\ ~ t[i].ok }

\* ------------------------------------------------- concurrent resyncs
\* The indexes a run of resyncs starts from: "a" uploaded through the
\* earlier route (namespace "default") and through the Prisma route by u1.
SyncIndexes ==
  { LegacyVectors(<<"a">>, k1) \cup PrismaVectors(Cuid(1), <<"a">>, getUserNamespace("u1"), k2) :
      k1 \in ChunkCounts, k2 \in ChunkCounts }

\* A record registered by the earlier upload route.
RegisteredRecord ==
  [documentId |-> StampedId(<<"a">>, 1), fileName |-> <<"a">>,
   namespace |-> DefaultNs, totalChunks |-> 1, status |-> "completed"]

\* A record an earlier sync discovered in the namespace, when the index held
\* one vector of "a" there.
DiscoveredRecord(namespace) ==
  [documentId |-> <<"a">> \o <<"-">> \o namespace, fileName |-> <<"a">>,
   namespace |-> namespace, totalChunks |-> 1, status |-> "completed"]

\* The registries a run of resyncs starts from.
SyncRegistries ==
  SUBSET { RegisteredRecord, DiscoveredRecord(DefaultNs),
           DiscoveredRecord(getUserNamespace("u1")) }

\* The index does not change during the run; before holds the registry the
\* run starts from. A registry that was never synced holds no discovered
\* record.
InitSync ==
  /\ HistIdle /\ NoRequest /\ AskIdle /\ NoCalls /\ ContextIdle /\ NoTempFile /\ InputIdle
  /\ prismaDocs = {}
  /\ nextId = 1
  /\ pinecone \in SyncIndexes
  /\ documentRegistry \in SyncRegistries
  /\ lastSyncAge \in { "never", "recent", "stale" }
  /\ lastSyncAge = "never" => documentRegistry \subseteq { RegisteredRecord }
  /\ \E namespace \in Namespaces :
       sync = [NoSync EXCEPT !.namespace = namespace, !.before = documentRegistry]

\* document-registry.ts 473-484: now = Date.now(), the skip test, and the
\* call of discoverDocumentsFromPinecone up to its await (line 412).
SyncBegin(p) ==
  /\ sync.call[p].pc = "idle"
  /\ sync' = [sync EXCEPT
                !.call[p].pc = IF SyncSkipped(documentRegistry, lastSyncAge)
                               THEN "skipped" ELSE "awaiting",
                !.log = Append(@, [call |-> p, step |-> "begin"])]
  /\ UNCHANGED storeVars

\* document-registry.ts 412-416, 419-456, 486-491: the query resolves, the
\* discovered records are set, and lastSyncTime becomes the now read at the
\* beginning; ok: the query succeeds, otherwise the error is rethrown.
SyncResume(p, ok) ==
  /\ sync.call[p].pc = "awaiting"
  /\ sync' = [sync EXCEPT
                !.call[p].pc = IF ok THEN "done" ELSE "failed",
                !.log = Append(@, [call |-> p, step |-> IF ok THEN "resume" ELSE "throw"])]
  /\ IF ok
     THEN /\ documentRegistry' =
               SetAll(documentRegistry,
                      discoverDocumentsFromPinecone(pinecone, sync.namespace))
          /\ lastSyncAge' = IF sync.call[p].late THEN "stale" ELSE "recent"
     ELSE UNCHANGED <<documentRegistry, lastSyncAge>>
  /\ UNCHANGED <<prismaDocs, pinecone, nextId>>

\* SYNC_INTERVAL passes: the last sync is no longer recent, and neither is
\* the now of a call that is waiting for its query.
SyncTick ==
  /\ \/ lastSyncAge = "recent"
     \/ \E p \in Syncs : sync.call[p].pc = "awaiting" /\ ~ sync.call[p].late
  /\ lastSyncAge' = IF lastSyncAge = "recent" THEN "stale" ELSE lastSyncAge
  /\ sync' = [sync EXCEPT
                !.call = [p \in Syncs |->
                            IF sync.call[p].pc = "awaiting"
                            THEN [sync.call[p] EXCEPT !.late = TRUE]
                            ELSE sync.call[p]]]
  /\ UNCHANGED <<prismaDocs, documentRegistry, pinecone, nextId>>

NextSync ==
  \/ \E p \in Syncs :
       SyncBegin(p) /\ UNCHANGED <<histVars, reqVars, askVars, regVars, ctxVars, tmpVars, inputVars>>
  \/ \E p \in Syncs, ok \in BOOLEAN :
       SyncResume(p, ok) /\ UNCHANGED <<histVars, reqVars, askVars, regVars, ctxVars, tmpVars, inputVars>>
  \/ SyncTick /\ UNCHANGED <<histVars, reqVars, askVars, regVars, ctxVars, tmpVars, inputVars>>

SpecSync == InitSync /\ [][NextSync]_vars

\* The document ids of a registry with their chunk counts.
IdsAndChunks(registry) == { << d.documentId, d.totalChunks >> : d \in registry }

\* The ids and chunk counts one resync of the run's namespace leaves: a
\* record per source of the namespace's vectors with their number, and the
\* records held before under other ids.
AfterOneResync ==
  LET namespace == sync.namespace
      matches == { v \in pinecone : v.ns = namespace }
      found == { << v.source \o <<"-">> \o namespace,
                    Cardinality({ w \in matches : w.source = v.source }) >> :
                   v \in matches }
  IN  found \cup { x \in IdsAndChunks(sync.before) :
                     \A y \in found : y[1] # x[1] }

\* ------------------------------------------------------------ chunk ids
\* Document names with characters that generateChunkId replaces.
ChunkNames == { <<"a">>, <<"a", ".", "b">>, <<"a", "-", "b">>, <<"a", "b">> }

\* Uploads through the earlier route into the namespace "default", whose
\* vectors get their ids from generateChunkId.
NextNames ==
  \/ \E n \in ChunkNames, k \in ChunkCounts :
       LegacyUploadStart(n, DefaultNs, k)
         /\ UNCHANGED <<histVars, askVars, regVars, ctxVars, syncVars, tmpVars, inputVars>>
  \/ \E ok \in Outcomes :
       LegacyEmbed(ok) /\ UNCHANGED <<histVars, askVars, regVars, ctxVars, syncVars, tmpVars, inputVars>>
  \/ \E ok \in Outcomes :
       LegacyUpsert(ok) /\ UNCHANGED <<histVars, askVars, regVars, ctxVars, syncVars, tmpVars, inputVars>>
  \/ LegacyRegister /\ UNCHANGED <<histVars, askVars, regVars, ctxVars, syncVars, tmpVars, inputVars>>

SpecNames == InitDocs /\ [][NextNames]_vars

\* The vectors the index holds for the document name in "default".
VectorsOfName(name) == { v \in pinecone : v.ns = DefaultNs /\ v.source = name }

\* ------------------------------------------- temporary file of an upload
\* upload-document/route.ts 46-58, part_004 62-74: downloadFileFromUrl
\* writes the temporary file, then the PDF is processed; a PDF without
\* chunks is answered 400 at once.
UploadDownload(start) == start /\ tempFile' = "present"

\* upload-document/route.ts 97-100 and 119-122, part_004 149-152 and 171-174:
\* cleanupTempFile(tempFilePath) before the 200 answer and in the catch
\* before the 500 answer.
UploadCleanup(step) ==
  step /\ tempFile' = IF req'.pc = "idle" THEN "absent" ELSE tempFile

NextTemp ==
  \/ \E u \in UsersNow, n \in DocNamesNow, k \in ChunkCounts :
       UploadDownload(UploadStart(u, n, k))
         /\ UNCHANGED <<histVars, askVars, regVars, ctxVars, syncVars, inputVars>>
  \/ \E ok \in Outcomes :
       UploadCleanup(UploadEmbed(ok)) /\ UNCHANGED <<histVars, askVars, regVars, ctxVars, syncVars, inputVars>>
  \/ UploadCleanup(UploadCreate) /\ UNCHANGED <<histVars, askVars, regVars, ctxVars, syncVars, inputVars>>
  \/ \E ok \in Outcomes :
       UploadCleanup(UploadUpsert(ok)) /\ UNCHANGED <<histVars, askVars, regVars, ctxVars, syncVars, inputVars>>
  \/ \E n \in DocNamesNow, ns \in Namespaces, k \in ChunkCounts :
       UploadDownload(LegacyUploadStart(n, ns, k))
         /\ UNCHANGED <<histVars, askVars, regVars, ctxVars, syncVars, inputVars>>
  \/ \E ok \in Outcomes :
       UploadCleanup(LegacyEmbed(ok)) /\ UNCHANGED <<histVars, askVars, regVars, ctxVars, syncVars, inputVars>>
  \/ \E ok \in Outcomes :
       UploadCleanup(LegacyUpsert(ok)) /\ UNCHANGED <<histVars, askVars, regVars, ctxVars, syncVars, inputVars>>
  \/ UploadCleanup(LegacyRegister) /\ UNCHANGED <<histVars, askVars, regVars, ctxVars, syncVars, inputVars>>

SpecTemp == InitDocs /\ [][NextTemp]_vars

\* ------------------------------------------------------------ chat input
\* Texts typed into the input.
InputTexts == { << >>, << " " >>, << "a" >>, << "b" >> }

\* !message.trim()
Blank(text) == Trim(text) = << >>

\* What a render shows: the state at the time of the render. The handlers of
\* a render read these values.
Rendered(input) == [message |-> input.message, isLoading |-> input.isLoading]

\* part_000 56: the input is disabled
InputDisabled == chatInput.disabled \/ chatInput.view.isLoading

\* part_000 63: the send button is disabled
ButtonDisabled ==
  chatInput.disabled \/ chatInput.view.isLoading \/ Blank(chatInput.view.message)

\* The state after a send settled without the finally: isLoading is reset
\* only when the send succeeded.
SettledWithoutFinally(input, ok) ==
  [input EXCEPT !.message = IF ok THEN << >> ELSE @,
                !.isLoading = IF ok THEN FALSE ELSE @,
                !.outcomes = Append(@, ok)]

\* part_000 26-32: onSendMessage has settled; ok: it resolved. The message
\* is cleared after a resolved send, isLoading is reset in the finally.
Settled(input, ok) ==
  [input EXCEPT !.message = IF ok THEN << >> ELSE @,
                !.isLoading = FALSE,
                !.outcomes = Append(@, ok)]

\* part_000 21-26: handleSendMessage up to its await, with the values of the
\* last render; the update is rendered at the end of the event.
handleSendMessage ==
  IF Blank(chatInput.view.message) \/ chatInput.disabled \/ chatInput.view.isLoading
  THEN UNCHANGED chatInput
  ELSE /\ Len(chatInput.sent) < MaxSends
       /\ LET started == [chatInput EXCEPT !.isLoading = TRUE,
                                            !.sent = Append(@, chatInput.view.message)]
          IN  chatInput' = [started EXCEPT !.view = Rendered(started)]

\* part_000 43-45: handleInputChange, on an input that is not disabled
InputChange(text) ==
  /\ ~ InputDisabled
  /\ text # chatInput.message
  /\ LET typed == [chatInput EXCEPT !.message = text]
     IN  chatInput' = [typed EXCEPT !.view = Rendered(typed)]

\* part_000 36-41: Enter pressed in the input. A key event that reaches the
\* handler of an input rendered disabled is allowed for: the guard of
\* handleSendMessage alone decides.
PressEnter == handleSendMessage

\* part_000 61-64: the send button clicked
ClickSend == ~ ButtonDisabled /\ handleSendMessage

\* part_000 26-32: a send in flight settles; the updates are not rendered yet
SendSettles(ok) ==
  /\ Len(chatInput.outcomes) < Len(chatInput.sent)
  /\ chatInput' = Settled(chatInput, ok)

\* The component renders its state.
Render ==
  /\ chatInput.view # Rendered(chatInput)
  /\ chatInput' = [chatInput EXCEPT !.view = Rendered(chatInput)]

\* part_005 207-210: the parent renders the input with another value of
\* disabled (isProcessing).
SetDisabled(disabled) ==
  /\ disabled # chatInput.disabled
  /\ LET changed == [chatInput EXCEPT !.disabled = disabled]
     IN  chatInput' = [changed EXCEPT !.view = Rendered(changed)]

InitInput == InitDocs

NextInput ==
  \/ \E text \in InputTexts :
       InputChange(text)
         /\ UNCHANGED <<histVars, storeVars, reqVars, askVars, regVars, ctxVars, syncVars, tmpVars>>
  \/ PressEnter
       /\ UNCHANGED <<histVars, storeVars, reqVars, askVars, regVars, ctxVars, syncVars, tmpVars>>
  \/ ClickSend
       /\ UNCHANGED <<histVars, storeVars, reqVars, askVars, regVars, ctxVars, syncVars, tmpVars>>
  \/ \E ok \in BOOLEAN :
       SendSettles(ok)
         /\ UNCHANGED <<histVars, storeVars, reqVars, askVars, regVars, ctxVars, syncVars, tmpVars>>
  \/ Render
       /\ UNCHANGED <<histVars, storeVars, reqVars, askVars, regVars, ctxVars, syncVars, tmpVars>>
  \/ \E disabled \in BOOLEAN :
       SetDisabled(disabled)
         /\ UNCHANGED <<histVars, storeVars, reqVars, askVars, regVars, ctxVars, syncVars, tmpVars>>

SpecInput == InitInput /\ [][NextInput]_vars

\* The sends that have not settled.
InFlight(input) == Len(input.sent) - Len(input.outcomes)

\* ------------------------------------------------ requests of the users
\* The application with the Prisma-backed upload, the DELETE route, the list
\* and the delete-all route.
NextUsers ==
  \/ Next
  \/ \E ok \in BOOLEAN :
       DeleteAllRecords(ok) /\ UNCHANGED <<histVars, askVars, regVars, ctxVars, syncVars, tmpVars, inputVars>>

SpecUsers == InitDocs /\ [][NextUsers]_vars

\* The rows and the vectors that belong to the user.
DataOf(user, rows, index) ==
  << { d \in rows : d.userId = user },
     { v \in index : v.ns = getUserNamespace(user) } >>

\* The ask and the two upload routes, one request at a time, with trace
\* holding the external calls the request in flight has issued. The uploads
\* are of "a" by u1: the calls issued do not depend on the name or the user.
IngestStart(start) == ask.pc = "idle" /\ start /\ trace' = << >> /\ UNCHANGED ask

IngestCall(step, name, ok) ==
  step /\ trace' = Append(trace, Call(name, ok)) /\ UNCHANGED ask

NextCalls ==
  \/ \E ns \in Namespaces :
       Idle /\ AskStart(ns) /\ UNCHANGED <<histVars, regVars, ctxVars, syncVars, tmpVars, inputVars>>
  \/ \E ok \in BOOLEAN : AskEmbedQuery(ok) /\ UNCHANGED <<histVars, regVars, ctxVars, syncVars, tmpVars, inputVars>>
  \/ \E ok \in BOOLEAN : AskQueryVectors(ok) /\ UNCHANGED <<histVars, regVars, ctxVars, syncVars, tmpVars, inputVars>>
  \/ \E ok \in BOOLEAN : AskRegistryCheck(ok) /\ UNCHANGED <<histVars, regVars, ctxVars, syncVars, tmpVars, inputVars>>
  \/ AskFormatContext /\ UNCHANGED <<histVars, regVars, ctxVars, syncVars, tmpVars, inputVars>>
  \/ \E ok1, ok2 \in BOOLEAN : AskCatalog(ok1, ok2) /\ UNCHANGED <<histVars, regVars, ctxVars, syncVars, tmpVars, inputVars>>
  \/ \E ok \in BOOLEAN : AskSendMessage(ok) /\ UNCHANGED <<histVars, regVars, ctxVars, syncVars, tmpVars, inputVars>>
  \/ AskRespond /\ UNCHANGED <<histVars, regVars, ctxVars, syncVars, tmpVars, inputVars>>
  \/ \E k \in ChunkCounts :
       IngestStart(UploadStart("u1", <<"a">>, k)) /\ UNCHANGED <<histVars, regVars, ctxVars, syncVars, tmpVars, inputVars>>
  \/ \E ok \in Outcomes :
       IngestCall(UploadEmbed(ok), "embedDocuments", ok)
         /\ UNCHANGED <<histVars, regVars, ctxVars, syncVars, tmpVars, inputVars>>
  \/ UploadCreate /\ UNCHANGED <<histVars, askVars, regVars, ctxVars, syncVars, tmpVars, inputVars>>
  \/ \E ok \in Outcomes :
       IngestCall(UploadUpsert(ok), "upsertVectors", ok)
         /\ UNCHANGED <<histVars, regVars, ctxVars, syncVars, tmpVars, inputVars>>
  \/ \E k \in ChunkCounts :
       IngestStart(LegacyUploadStart(<<"a">>, DefaultNs, k)) /\ UNCHANGED <<histVars, regVars, ctxVars, syncVars, tmpVars, inputVars>>
  \/ \E ok \in Outcomes :
       IngestCall(LegacyEmbed(ok), "embedDocuments", ok)
         /\ UNCHANGED <<histVars, regVars, ctxVars, syncVars, tmpVars, inputVars>>
  \/ \E ok \in Outcomes :
       IngestCall(LegacyUpsert(ok), "upsertVectors", ok)
         /\ UNCHANGED <<histVars, regVars, ctxVars, syncVars, tmpVars, inputVars>>
  \/ LegacyRegister /\ UNCHANGED <<histVars, askVars, regVars, ctxVars, syncVars, tmpVars, inputVars>>

SpecCalls == InitAsk /\ [][NextCalls]_vars

\* The number of calls of the name in the trace.
CallsOf(t, name) ==
  Cardinality({ i \in 1..Len(t) : t[i].kind = "call" /\ t[i].name = name })

\* ------------------------------------------------------------------ claims

\* The Document row of the document with this id, if any.
RowsOf(id) == { d \in prismaDocs : d.id = id }

\* C1: once a DELETE of a document has been answered, a later list of its
\* namespace holds no record for that document (a record of its file name
\* while no other document of that name exists in the namespace), also when
\* the vector deletion of that DELETE failed.
C1_DeletedNotListed ==
  (response.op = "list" /\ response.status = 200) =>
    \A d \in deleted :
      (~ \E p \in prismaDocs : p.fileName = d.fileName /\ p.namespace = d.namespace)
        => ~ \E r \in response.documents :
               r.fileName = d.fileName /\ r.namespace = d.namespace

\* C1, the failing case: the vectors of a deleted document are still in the
\* index and the list of its namespace returns a record for it.
C1_Witness ==
  /\ response.op = "list" /\ response.status = 200
  /\ \E d \in deleted :
       /\ \E v \in pinecone : v.documentId = d.id
       /\ RowsOf(d.id) = {}
       /\ \E r \in response.documents : r.fileName = d.fileName

C3_PartialSuccessFlag ==
  (response.op = "delete" /\ response.vectorsDeleted = "failed") =>
    /\ response.status = 200
    /\ RowsOf(response.id) = {}
    /\ \A d \in deleted :
         d.id = response.id => response.body # DeleteOkBody(d.fileName, d.id)

\* C3 as the code has it: a DELETE whose vector deletion failed removes the
\* registry record and is answered 200 with success = true; the answer is
\* the one of a DELETE whose vectors were removed (the failure is only
\* logged).
C3_FailureOnlyLogged ==
  (response.op = "delete" /\ response.vectorsDeleted = "failed") =>
    /\ response.status = 200
    /\ response.body.success
    /\ RowsOf(response.id) = {}
    /\ \E d \in deleted :
         d.id = response.id /\ response.body = DeleteOkBody(d.fileName, d.id)

\* C3 witness: a DELETE whose vector deletion failed has been answered and
\* the vectors of the document are still in the index.
C3_Witness ==
  /\ response.op = "delete" /\ response.vectorsDeleted = "failed"
  /\ response.status = 200
  /\ \E v \in pinecone : v.documentId = response.id

\* C4: after registerDocument has been called more than once with a
\* documentId, the registry holds exactly one record of that documentId and
\* its totalChunks is the value of the last call.
C4_LatestTotalChunks ==
  \A i \in 1..Len(calls) :
    (~ \E j \in (i + 1)..Len(calls) :
         calls[j].store = calls[i].store /\ calls[j].documentId = calls[i].documentId)
      => /\ Cardinality(RecordsOf(calls[i].store, calls[i].documentId)) = 1
         /\ \A r \in RecordsOf(calls[i].store, calls[i].documentId) :
              r.totalChunks = calls[i].totalChunks

\* C4, the failing case: the Prisma-backed registerDocument was called twice
\* with one documentId and two values of totalChunks, and the row holds the
\* first value.
C4_Witness ==
  \E i, j \in 1..Len(calls) :
    /\ i < j
    /\ calls[i].store = "prisma" /\ calls[j].store = "prisma"
    /\ calls[i].documentId = calls[j].documentId
    /\ calls[i].totalChunks # calls[j].totalChunks
    /\ j = Len(calls)
    /\ \E r \in RecordsOf("prisma", calls[j].documentId) :
         r.totalChunks = calls[i].totalChunks

\* C5: when every request has completed and no external call has failed,
\* the totalChunks of every registry record is the number of vectors stored
\* for its document (the vectors whose source is the record's file name).
C5_ChunksMatchVectors ==
  (Idle /\ failures = 0) =>
    \A r \in documentRegistry :
      r.totalChunks = Cardinality({ v \in pinecone : v.source = r.fileName })

\* C5, the failing case: a name ingested a second time with fewer chunks;
\* the record of the second ingest counts less than the index holds.
C5_Witness ==
  /\ Idle /\ failures = 0
  /\ response.op = "legacyUpload" /\ response.status = 200
  /\ \E r \in documentRegistry :
       /\ r.documentId = response.id
       /\ r.totalChunks < Cardinality({ v \in pinecone : v.source = r.fileName })

\* C6: the registry record of an upload is created only after the vector
\* upsert has succeeded: no record exists while the upsert is still to be
\* done, and none is left by an upload that failed.
C6_RegisterAfterUpsert ==
  /\ (req.op = "upload" /\ req.pc = "upsert") => RowsOf(req.id) = {}
  /\ (response.op = "upload" /\ response.status = 500) => RowsOf(response.id) = {}

\* C6, the failing case: an upload answered 500 has left its record, and
\* the index holds no vector of it.
C6_Witness ==
  /\ response.op = "upload" /\ response.status = 500
  /\ RowsOf(response.id) # {}
  /\ ~ \E v \in pinecone : v.documentId = response.id

\* C7: for every input conversation history, the validated history handed to
\* the language-model chat is either empty or starts with a user turn.
C7_StartsWithUser ==
  Validated => (chatHistory = <<>> \/ chatHistory[1].role = "user")

\* C7, the failing case: the Home page sent a history with two leading
\* assistant turns and the validated history starts with a model turn.
C7_Witness ==
  /\ hpc = "validatedHome"
  /\ Len(conversationHistory) >= 2
  /\ conversationHistory[1].role = "assistant"
  /\ conversationHistory[2].role = "assistant"
  /\ chatHistory # <<>>
  /\ chatHistory[1].role = "model"

\* A history with only non-empty contents that starts with a user turn and
\* alternates user / assistant.
WellFormedHistory(h) ==
  /\ \A i \in 1..Len(h) : h[i].content # <<>>
  /\ \A i \in 1..Len(h) : h[i].role = (IF i % 2 = 1 THEN "user" ELSE "assistant")

\* The turns of h, roles user/assistant written user/model.
SameTurns(ch, h) ==
  /\ Len(ch) = Len(h)
  /\ \A i \in 1..Len(h) :
       /\ ch[i].text = h[i].content
       /\ ch[i].role = (IF h[i].role = "user" THEN "user" ELSE "model")

\* C8: validation leaves unchanged every history with only non-empty
\* contents that starts with a user turn and alternates, and validating an
\* already validated history returns it unchanged.
C8_UnchangedAndIdempotent ==
  Validated =>
    /\ WellFormedHistory(conversationHistory)
         => SameTurns(chatHistory, conversationHistory)
    /\ ChatHistory(AsConversation(chatHistory)) = chatHistory

\* C8, the failing case: a validated history that still starts with a model
\* turn, so that validating it again removes another turn.
C8_Witness ==
  /\ Validated
  /\ chatHistory # <<>>
  /\ Len(ChatHistory(AsConversation(chatHistory))) < Len(chatHistory)

\* s (validated turns) is a subsequence of t (input turns), in order, each
\* kept turn carrying the input text and the role user or model.
RECURSIVE IsSubsequence(_, _)
IsSubsequence(s, t) ==
  IF s = <<>> THEN TRUE
  ELSE IF t = <<>> THEN FALSE
  ELSE IF /\ Head(s).text = Head(t).content
          /\ (Head(s).role = "user") = (Head(t).role = "user")
       THEN IsSubsequence(Tail(s), Tail(t))
       ELSE IsSubsequence(s, Tail(t))

\* C9: the validated history has no turn whose content is empty or only
\* whitespace, every turn has the role user or model (model for every role
\* that is not user), and its turns are a subsequence of the input history.
C9_FilteredMappedSubsequence ==
  Validated =>
    /\ \A i \in 1..Len(chatHistory) :
         /\ chatHistory[i].text # <<>>
         /\ \E k \in 1..Len(chatHistory[i].text) : chatHistory[i].text[k] # " "
         /\ chatHistory[i].role \in {"user", "model"}
    /\ IsSubsequence(chatHistory, conversationHistory)

\* C9 witness: a history with a whitespace-only turn was validated and a
\* turn of it was kept.
C9_Witness ==
  /\ Validated
  /\ \E j \in 1..Len(conversationHistory) : conversationHistory[j].content = <<" ">>
  /\ chatHistory # <<>>

\* C10: within one ask request the stages are entered in the order
\* Retrieving, Assembling, Generating, Done, none twice, Failed being
\* entered at most once and last; the language-model call is issued only
\* after the embedding call and then the vector query have succeeded; and
\* nothing is entered or called after Done or Failed.
C10_StagesInOrder ==
  LET stages == StagesOf(trace)
      n == Len(stages)
  IN  /\ ask.pc # "idle" => n >= 1
      /\ \A i \in 1..n :
           \/ i <= Len(StageOrder) /\ stages[i] = StageOrder[i]
           \/ i = n /\ stages[i] = "Failed"
      /\ \A i \in 1..Len(trace) :
           trace[i] = Call("sendMessage", trace[i].ok) =>
             \E j, k \in 1..(i - 1) :
               /\ j < k
               /\ trace[j] = Call("embedQuery", TRUE)
               /\ trace[k] = Call("queryVectors", TRUE)
      /\ \A i \in 1..(Len(trace) - 1) :
           trace[i] \notin { Stage("Done"), Stage("Failed") }
      /\ ask.pc \in { "done", "failed" } <=>
           (trace # <<>> /\ trace[Len(trace)] \in { Stage("Done"), Stage("Failed") })

\* C10 witness: a request whose vector query returned no match has run
\* through the registry check, the catalog and the language-model call to
\* Done.
C10_Witness ==
  /\ ask.pc = "done"
  /\ StagesOf(trace) = StageOrder
  /\ \E i \in 1..Len(trace) : trace[i] = Call("sendMessage", TRUE)
  /\ \E i \in 1..Len(trace) : trace[i] = Call("getDocumentStats", TRUE)

RetrieveFailed == StagesOf(trace) = << "Retrieving", "Failed" >>

\* C12: retrieve fails only when the embedding call or the vector query
\* failed (an empty result of a vector query that succeeded is not a
\* failure), and a failed vector query is never followed by the rest of the
\* pipeline as if nothing had matched.
C12_EmptyIsNotFailure ==
  /\ RetrieveFailed =>
       \E i \in FailedCalls(trace) : trace[i].name \in { "embedQuery", "queryVectors" }
  /\ (\E i \in FailedCalls(trace) : trace[i].name = "queryVectors") => RetrieveFailed

\* C12, the failing case: the embedding and the vector query succeeded, the
\* query matched nothing, and retrieve failed.
C12_Witness ==
  /\ RetrieveFailed
  /\ \E i, j \in 1..Len(trace) :
       trace[i] = Call("embedQuery", TRUE) /\ trace[j] = Call("queryVectors", TRUE)
  /\ ask.retrieved = << >>
  /\ ask.error = "getAllDocuments"

C13_AskAfterDeleteAll ==
  (ask.pc = "done" /\ \E d \in deleted : d.namespace = ask.namespace) =>
    /\ ask.retrieved = << >>
    /\ ask.context = NoDocumentsMarker

\* C13, the failing case: the delete-all deleted the Document row of a
\* user's document, and an ask in the user's namespace retrieved its chunks.
C13_Witness ==
  /\ ask.pc = "done"
  /\ prismaDocs = {}
  /\ \E d \in deleted :
       /\ d.namespace = ask.namespace
       /\ \E i \in 1..Len(ask.retrieved) : ask.retrieved[i].source = d.fileName
  /\ ask.context # NoDocumentsMarker

\* A step of a DELETE or of a list (with its resync) made for the namespace.
OperationOn(namespace) ==
  \/ /\ req.op = "delete" /\ req.ns = namespace
     /\ \/ \E ok \in BOOLEAN : DeleteVectors(ok)
        \/ DeletePrisma
        \/ \E ok \in BOOLEAN : DeleteClearAndSync(ok)
  \/ \E ok1, ok2 \in BOOLEAN : ListDocuments(namespace, ok1, ok2)

\* The step leaves every other namespace as it was: its registry records,
\* its vectors, and whether a resync made now would be skipped.
FrameFor(namespace) ==
  \A other \in Namespaces \ { namespace } :
    /\ RegistryOf(documentRegistry', other) = RegistryOf(documentRegistry, other)
    /\ queryVectors(pinecone', other) = queryVectors(pinecone, other)
    /\ SyncSkipped(documentRegistry', lastSyncAge')
         = SyncSkipped(documentRegistry, lastSyncAge)

\* C14: a delete, a registry clear or a resync made for a namespace changes
\* neither the registry records nor the vectors of another namespace, nor
\* whether a later resync of another namespace is performed.
C14_NamespaceFrame ==
  [][ \A namespace \in Namespaces : OperationOn(namespace) => FrameFor(namespace) ]_vars

\* C14, the failing case: the resync of one namespace stamped the shared
\* lastSyncTime, the resync of a second namespace was skipped, and the list
\* of the second namespace is empty although the index holds its vectors.
C14_Witness ==
  /\ response.op = "list" /\ response.status = 200
  /\ response.documents = {}
  /\ queryVectors(pinecone, response.namespace) # {}
  /\ lastSyncAge = "recent"
  /\ \E r \in documentRegistry : r.namespace # response.namespace

\* C15: after a successful ingest requested for a namespace, the registry
\* record of the document carries that namespace and every vector of the
\* document is stored under it.
C15_IngestNamespace ==
  (response.op = "legacyUpload" /\ response.status = 200) =>
    \E r \in documentRegistry :
      /\ r.documentId = response.id
      /\ \A idx \in 0..(r.totalChunks - 1) :
           \E v \in queryVectors(pinecone, r.namespace) :
             v.id = generateChunkId(r.fileName, idx) /\ v.source = r.fileName

\* C15, the failing case: the document was ingested for a user's namespace,
\* its record carries that namespace, and the namespace holds no vector.
C15_Witness ==
  /\ response.op = "legacyUpload" /\ response.status = 200
  /\ \E r \in documentRegistry :
       /\ r.documentId = response.id
       /\ r.namespace # DefaultNs
       /\ queryVectors(pinecone, r.namespace) = {}
       /\ \E v \in queryVectors(pinecone, DefaultNs) : v.source = r.fileName

\* The context is sent to the language model in the sendMessage step.
ContextSent == ask.pc \in { "sendMessage", "done" }

\* The catalog entry of a registry record.
CatalogEntry(r) ==
  << "**" >> \o r.fileName \o << "**", " Chunks: " >> \o Str(r.totalChunks)

ListedInOrder ==
  (response.op = "list" /\ response.status = 200) =>
    LET listed == response.documents
        held == IF response.store = "prisma"
                THEN { d.documentId : d \in { r \in prismaDocs :
                                                r.namespace = response.namespace } }
                ELSE { d.documentId : d \in RegistryOf(documentRegistry,
                                                       response.namespace) }
    IN  /\ { listed[i].documentId : i \in 1..Len(listed) } = held
        /\ Len(listed) = Cardinality(held)
        /\ \A i \in 1..(Len(listed) - 1) :
             listed[i].uploadedAt >= listed[i + 1].uploadedAt

\* C18: every list of a namespace, after any registrations, returns exactly
\* the registry records of the namespace, each once, ordered by uploadedAt
\* descending.
C18_ListOrdered ==
  [][ (response'.op = "list" /\ calls' = calls) => ListedInOrder' ]_vars

\* C18, the failing case: the in-memory list returns two documents, the
\* one registered first before the one registered later.
C18_Witness ==
  /\ response.op = "list" /\ response.status = 200
  /\ response.store = "memory"
  /\ Len(response.documents) = 2
  /\ response.documents[1].uploadedAt < response.documents[2].uploadedAt

\* A record of the registry whose document has no vector in the index under
\* the record's namespace.
WithoutVectors(registry, index, namespace) ==
  { d \in RegistryOf(registry, namespace) :
      ~ \E v \in index : v.ns = namespace /\ v.source = d.fileName }

\* The step completes a resync of the namespace that was not skipped: only
\* syncRegistryWithPinecone sets lastSyncTime.
ResyncCompleted(namespace) ==
  /\ ask.namespace = namespace
  /\ ask.pc \in { "registryCheck", "catalog" }
  /\ lastSyncAge # "recent"
  /\ lastSyncAge' = "recent"

\* C19: when a resync of a namespace has completed, the registry holds no
\* record of that namespace for a document that has no vector in the index.
C19_ResyncDropsStale ==
  [][ \A namespace \in Namespaces :
        ResyncCompleted(namespace) =>
          WithoutVectors(documentRegistry', pinecone', namespace) = {} ]_vars

\* C19, the failing case: the vectors of "default" were deleted by delete-all,
\* an ask of "default" found no match and synced the registry, and the
\* registry still holds the record of "a".
C19_Witness ==
  /\ \E x \in deleted : x.namespace = DefaultNs /\ x.fileName = <<"a">>
  /\ ask.namespace = DefaultNs
  /\ \E i \in 1..Len(trace) : trace[i] = Call("getAllDocuments", TRUE)
  /\ lastSyncAge = "recent"
  /\ documentRegistry # {}
  /\ \A d \in documentRegistry : d.documentId = StampedId(<<"a">>, 1)
  /\ WithoutVectors(documentRegistry, pinecone, DefaultNs) # {}

\* C20: with an unchanged index, however many resyncs of a namespace have
\* run, one after another or interleaved at their awaits, the registry holds
\* the ids and chunk counts one resync leaves; resyncs that were skipped or
\* that failed leave the registry as it was.
C20_ResyncIdempotent ==
  sync.namespace # << >> =>
    IdsAndChunks(documentRegistry) =
      IF \E p \in Syncs : sync.call[p].pc = "done"
      THEN AfterOneResync
      ELSE IdsAndChunks(sync.before)

\* C20: two resyncs interleaved at their awaits have both completed, and
\* they changed the chunk count of a record the registry held.
C20_Witness ==
  /\ Len(sync.log) = 4
  /\ sync.log[1].step = "begin" /\ sync.log[2].step = "begin"
  /\ sync.log[1].call # sync.log[2].call
  /\ sync.log[3].step = "resume" /\ sync.log[4].step = "resume"
  /\ sync.log[3].call = sync.log[2].call
  /\ DiscoveredRecord(sync.namespace) \in sync.before
  /\ [DiscoveredRecord(sync.namespace) EXCEPT !.totalChunks = 2] \in documentRegistry

\* The step answers a list of the namespace.
ListStep(namespace) ==
  /\ response' # response
  /\ response'.op = "list"
  /\ response'.namespace = namespace

\* A DELETE of a document of the namespace is between its steps: the vectors
\* are deleted and the row is still there, or the row is deleted and the
\* registry has not been cleared.
HalfDeleted(namespace) ==
  /\ req.op = "delete"
  /\ req.ns = namespace
  /\ \/ req.pc = "prisma" /\ req.vecOk = "deleted"
     \/ req.pc = "clear"

\* C21: no list of a namespace is served between the steps of a DELETE of a
\* document of that namespace.
C21_ListNotDuringDelete ==
  [][ \A namespace \in Namespaces :
        ListStep(namespace) => ~ HalfDeleted(namespace) ]_vars

\* C21, the failing case: a list served while a DELETE waits to clear the
\* registry has returned the document whose vectors and row are gone.
C21_Witness ==
  /\ HalfDeleted(req.ns)
  /\ req.pc = "clear" /\ req.vecOk = "deleted"
  /\ response.op = "list" /\ response.status = 200
  /\ response.namespace = req.ns
  /\ \E d \in response.documents : d.fileName = req.name
  /\ ~ \E v \in pinecone : v.ns = req.ns /\ v.source = req.name
  /\ ~ \E d \in prismaDocs : d.id = req.id

\* C22: a request issues each of its external calls at most once, also when
\* the call fails: the query embedding, the vector query and the generation
\* of an ask; the embedding and the upsert of an upload.
C22_NoRetry ==
  \A name \in { "embedQuery", "queryVectors", "sendMessage",
                "embedDocuments", "upsertVectors" } :
    CallsOf(trace, name) <= 1

\* C22: the generation call of an ask has failed and the request
\* is about to answer 500 after one failed call of the language model.
C22_Witness ==
  /\ ask.pc = "failed"
  /\ CallsOf(trace, "sendMessage") = 1
  /\ trace[Len(trace) - 1] = Call("sendMessage", FALSE)

\* C23: a record registered with status failed is stored as failed, and the
\* status of a stored record never changes except from processing to
\* completed or to failed.
C23_StatusKept ==
  /\ \A i \in 1..Len(calls) :
       (calls[i].status = "failed" /\
        ~ \E j \in (i + 1)..Len(calls) :
            calls[j].store = calls[i].store /\ calls[j].documentId = calls[i].documentId)
         => \A r \in RecordsOf(calls[i].store, calls[i].documentId) :
              r.status = "failed"
  /\ \A r \in prismaDocs \cup documentRegistry : r.status \in Statuses

\* C23, the failing case: the last call registered a document with status
\* failed and its record says completed.
C23_Witness ==
  /\ Len(calls) > 0
  /\ calls[Len(calls)].status = "failed"
  /\ \E r \in RecordsOf(calls[Len(calls)].store, calls[Len(calls)].documentId) :
       r.status = "completed"

\* C24: the rows and the vectors of a user are changed only by a step of a
\* request that carries the session of that user.
C24_OnlyOwnerChanges ==
  [][ \A v \in Users :
        DataOf(v, prismaDocs', pinecone') # DataOf(v, prismaDocs, pinecone)
          => req.user = v ]_vars

\* C24, the failing case: a delete-all request, which reads no session, has
\* deleted the row of a document of u1 and left its vectors.
C24_Witness ==
  /\ response.op = "deleteAll" /\ response.status = 200
  /\ req.user = "none"
  /\ \E x \in deleted : x.id # << >> /\ x.namespace = getUserNamespace("u1")
  /\ DataOf("u1", prismaDocs, pinecone)[1] = {}
  /\ DataOf("u1", prismaDocs, pinecone)[2] # {}

\* C26: a DELETE is started only for a document whose row belongs to the
\* session user, and a DELETE answered 401 or 404 has issued no vector
\* deletion and has changed no row, no registry record and no vector.
C26_DeleteOnlyByOwner ==
  [][ /\ (req.op # "delete" /\ req'.op = "delete")
          => \E d \in prismaDocs : d.id = req'.id /\ d.userId = req'.user
      /\ (response' # response /\ response'.op = "delete"
            /\ response'.status \in { 401, 404 })
          => /\ UNCHANGED <<prismaDocs, documentRegistry, lastSyncAge, pinecone, deleted>>
             /\ req = NoReq /\ req' = NoReq
             /\ response'.vectorsDeleted = "pending" ]_vars

\* C26: a DELETE has been answered 404 while the documents of a user and
\* their vectors are stored.
C26_Witness ==
  /\ response.op = "delete" /\ response.status = 404
  /\ prismaDocs # {}
  /\ \A d \in prismaDocs : \E v \in pinecone : v.documentId = d.id

\* C27: a sync that begins less than SYNC_INTERVAL after lastSyncTime with a
\* registry that is not empty is skipped, issuing no query and leaving the
\* registry and lastSyncTime as they are; every other sync issues the query;
\* a sync whose query fails changes nothing; and lastSyncTime is set only by
\* a sync whose query succeeded.
C27_SkipRule ==
  [][ /\ \A p \in Syncs :
           /\ (sync.call[p].pc = "idle" /\ sync'.call[p].pc # "idle")
                => IF lastSyncAge = "recent" /\ documentRegistry # {}
                   THEN /\ sync'.call[p].pc = "skipped"
                        /\ UNCHANGED <<documentRegistry, lastSyncAge>>
                   ELSE sync'.call[p].pc = "awaiting"
           /\ (sync.call[p].pc = "awaiting" /\ sync'.call[p].pc = "failed")
                => UNCHANGED <<documentRegistry, lastSyncAge>>
      /\ (lastSyncAge' # lastSyncAge /\ sync'.log # sync.log)
           => \E p \in Syncs :
                sync.call[p].pc = "awaiting" /\ sync'.call[p].pc = "done" ]_vars

\* C27: a sync has completed, and a sync that began after it was skipped.
C27_Witness ==
  /\ Len(sync.log) = 3
  /\ sync.log[1].step = "begin" /\ sync.log[2].step = "resume"
  /\ sync.log[3].step = "begin"
  /\ sync.call[sync.log[3].call].pc = "skipped"
  /\ sync.call[sync.log[1].call].pc = "done"
  /\ lastSyncAge = "recent" /\ documentRegistry # {}

\* C28: the chunks of two uploaded documents with different names have
\* different ids, and the index holds every vector of a document whose name
\* no other uploaded document has.
C28_ChunkIdsUnique ==
  \A r1 \in documentRegistry :
    /\ \A r2 \in documentRegistry :
         r1.fileName # r2.fileName =>
           \A i \in 0..(r1.totalChunks - 1), j \in 0..(r2.totalChunks - 1) :
             generateChunkId(r1.fileName, i) # generateChunkId(r2.fileName, j)
    /\ (Idle /\ \A r2 \in documentRegistry : r2.fileName = r1.fileName => r2 = r1)
         => Cardinality(VectorsOfName(r1.fileName)) = r1.totalChunks

\* C28, the failing case: "a.b" and "a-b" were uploaded with two chunks and
\* one, and the index holds one vector of "a.b".
C28_Witness ==
  /\ Idle
  /\ \E r1, r2 \in documentRegistry :
       /\ r1.fileName = <<"a", ".", "b">> /\ r1.totalChunks = 2
       /\ r2.fileName = <<"a", "-", "b">> /\ r2.totalChunks = 1
  /\ Cardinality(documentRegistry) = 2
  /\ Cardinality(VectorsOfName(<<"a", ".", "b">>)) = 1

\* C29: when an upload request has been answered, its temporary file is no
\* longer on disk.
C29_TempFileRemoved ==
  (Idle /\ response.op \in { "upload", "legacyUpload" }) => tempFile = "absent"

\* C29, the failing case: an upload of a PDF without chunks was answered 400
\* and its temporary file is on disk.
C29_Witness ==
  /\ Idle
  /\ response.op \in { "upload", "legacyUpload" }
  /\ response.status = 400
  /\ tempFile = "present"

\* C30: at most one send is in flight; a send starts only when none is in
\* flight, isLoading is false, the input is not disabled and the message is
\* not blank, and it sends the message; when a send settles isLoading
\* becomes false and the message is cleared if and only if the send
\* succeeded; while a send is in flight the message does not change.
C30_OneSendInFlight ==
  [][ /\ InFlight(chatInput') <= 1
      /\ Len(chatInput'.sent) > Len(chatInput.sent)
           => /\ InFlight(chatInput) = 0
              /\ ~ chatInput.isLoading /\ ~ chatInput.disabled
              /\ ~ Blank(chatInput.message)
              /\ chatInput'.sent[Len(chatInput'.sent)] = chatInput.message
              /\ chatInput'.isLoading
      /\ Len(chatInput'.outcomes) > Len(chatInput.outcomes)
           => /\ ~ chatInput'.isLoading
              /\ chatInput'.message =
                   IF chatInput'.outcomes[Len(chatInput'.outcomes)]
                   THEN << >> ELSE chatInput.message
      /\ (chatInput'.message # chatInput.message
            /\ Len(chatInput'.outcomes) = Len(chatInput.outcomes))
           => InFlight(chatInput) = 0 ]_vars

\* C30: a send has failed and a later one has succeeded: nothing is in
\* flight, isLoading is false and the message is cleared.
C30_Witness ==
  /\ chatInput.outcomes = << FALSE, TRUE >>
  /\ Len(chatInput.sent) = 2
  /\ ~ chatInput.isLoading
  /\ chatInput.message = << >>

====
